---- MODULE Spec2Model ----
(***************************************************************************)
(* A model of atuin-fzf (src/main.go): the search pipeline                 *)
(*   backend (atuin) -> producer goroutine of atuinAdapt -> selector (fzf) *)
(* run by the controller (run), the record enrichment atuinAdapt applies   *)
(* to every line, the mode selection of main, and the preview report of    *)
(* fzfPreview with its two backend queries.                                *)
(*                                                                         *)
(* Strings are sequences of one-character strings, so that strings.Split,  *)
(* strings.Join and the escape sequences of tcolor are computed and not    *)
(* assumed. The character "E" stands for the escape byte \033. Streams are *)
(* modelled at line granularity: fmt.Fprintln writes one line, and         *)
(* bufio.Scanner returns one line per Scan.                                *)
(***************************************************************************)
EXTENDS Naturals, Sequences, FiniteSets, TLC

\* ------------------------------------------------------------------ bounds

\* How many of the strings of FieldChoices a field of a line drawn for the
\* enrichment specification ranges over.
MaxFieldChoices == 5

\* Most lines the backend emits in one run (the program asks for --limit 1000).
MaxLines == 4

\* Lines the backend's stdout pipe holds before a write to it blocks.
BkCap == 1

\* Lines the adapter pipe (os.Pipe of atuinAdapt) holds before a write blocks.
AdCap == 1

\* ------------------------------------------------------------- strings

\* const _delim = ":::"
Delim == <<":", ":", ":">>

\* The number of parts atuinAdapt indexes: parts[0] .. parts[4].
NumFields == 5

\* tcolor.Red
Red == 1

\* strings.Index(s, sep), 1-based; 0 when sep does not occur in s.
Index(s, sep) ==
    LET hits == {i \in 1..(Len(s) + 1) :
                    /\ i + Len(sep) - 1 <= Len(s)
                    /\ SubSeq(s, i, i + Len(sep) - 1) = sep}
    IN IF hits = {} THEN 0 ELSE CHOOSE i \in hits : \A j \in hits : i <= j

\* strings.Contains(s, sub)
Contains(s, sub) == Index(s, sub) # 0

\* strings.Split(s, sep) for a non-empty sep: cut at the leftmost occurrence,
\* then split what follows it.
RECURSIVE Split(_, _)
Split(s, sep) ==
    LET i == Index(s, sep)
    IN IF i = 0
       THEN <<s>>
       ELSE <<SubSeq(s, 1, i - 1)>> \o Split(SubSeq(s, i + Len(sep), Len(s)), sep)

\* strings.Join(parts, sep)
RECURSIVE Join(_, _)
Join(parts, sep) ==
    IF Len(parts) = 0 THEN <<>>
    ELSE IF Len(parts) = 1 THEN parts[1]
    ELSE parts[1] \o sep \o Join(Tail(parts), sep)

\* fmt.Sprintf("%d", c) for the colours of tcolor, which are single digits.
Digits(c) == <<CASE c = 1 -> "1" [] c = 2 -> "2" [] OTHER -> "8">>

\* Color.Foreground: "\033[38;5;%dm%s\033[0m"
Foreground(c, s) ==
    <<"E", "[", "3", "8", ";", "5", ";">> \o Digits(c) \o <<"m">> \o s
        \o <<"E", "[", "0", "m">>

\* " \033[38;5;242m(current dir)\033[0m"
CurrentDirNote ==
    <<" ", "E", "[", "3", "8", ";", "5", ";", "2", "4", "2", "m",
      "(", "c", "u", "r", "r", "e", "n", "t", " ", "d", "i", "r", ")",
      "E", "[", "0", "m">>

\* ---------------------------------------------------------- enrichment

\* A slip of line 106: the comparison inverted.
ExitFailedInverted(exitCode) == exitCode = <<"0">>

\* The condition of line 106: the exit code is not the string "0".
ExitFailed(exitCode) == exitCode # <<"0">>

\* exitStatus of lines 105-108.
ExitStatus(exitCode) ==
    IF ExitFailed(exitCode)
    THEN Foreground(Red, <<"e", "x", "i", "t", " ">> \o exitCode)
    ELSE <<" ">>

\* The condition of line 111: curDir is what os.Getwd returned, its error dropped.
DirMatches(directory, curDir) == directory = curDir

\* dirCtx of lines 110-113.
DirCtx(directory, curDir) ==
    IF DirMatches(directory, curDir) THEN CurrentDirNote ELSE <<>>

\* The fields joined at lines 115-123, from the parts of a line with at least
\* NumFields parts.
EnrichedFields(parts, curDir) ==
    <<parts[1], parts[2], parts[3], parts[4], parts[5],
      ExitStatus(parts[2]), DirCtx(parts[3], curDir)>>

\* A slip of line 103: the parts a line lacks are taken to be empty.
EnrichPadded(line, curDir) ==
    LET split == Split(line, Delim)
        parts == [i \in 1..NumFields |->
                     IF i <= Len(split) THEN split[i] ELSE <<>>]
    IN [panic |-> FALSE, parts |-> parts,
        fields |-> EnrichedFields(parts, curDir),
        out |-> Join(EnrichedFields(parts, curDir), Delim)]

\* The line written for one scanned line, or "panic" when parts[4] does not
\* exist (index out of range at line 103).
Enrich(line, curDir) ==
    LET parts == Split(line, Delim)
    IN IF Len(parts) < NumFields
       THEN [panic |-> TRUE, parts |-> parts, fields |-> <<>>, out |-> <<>>]
       ELSE [panic |-> FALSE, parts |-> parts,
             fields |-> EnrichedFields(parts, curDir),
             out |-> Join(EnrichedFields(parts, curDir), Delim)]

\* No line handled yet.
NoRes == [panic |-> FALSE, parts |-> <<>>, fields |-> <<>>, out |-> <<>>]

\* What os.Getwd can return: a non-empty absolute path, or "" with an error.
GetwdResults ==
    {[dir |-> <<"/">>, err |-> FALSE], [dir |-> <<>>, err |-> TRUE]}

\* --------------------------------------------- enrichment: the state

VARIABLES
    enPc,       \* "idle"; "scanned": a line was read; "written"; "panic"
    enLine,     \* the line scanner.Text() returned
    enGetwd,    \* what os.Getwd returned
    enRes       \* what the loop body made of the line

enVars == <<enPc, enLine, enGetwd, enRes>>

\* ------------------------------------------------- pipeline: the state

VARIABLES
    getwd,      \* what os.Getwd returns in this run
    bkAll,      \* the lines the backend emits in this run, in order
    procPc,     \* this process: "running", "crashed" (panic), "exit0", "exit1"
    ctlPc,      \* the position of run (the controller)
    runErr,     \* the error run returns, "none" for nil
    bkPc,       \* the backend process: "notstarted", "running", "exited"
    bkSent,     \* how many lines the backend has written to its stdout
    bkPipe,     \* the backend's stdout pipe: lines written and not yet read
    bkStatus,   \* the backend's exit status, "none" until it exits
    outOpen,    \* atuin.stdout (the read end of bkPipe) is open in this process
    prPc,       \* the producer goroutine: "idle", "scan", "write", "close", "done", "panic"
    prCur,      \* the enriched line the producer is about to write
    prErr,      \* why the producer panicked: "none", "index", "read", "write"
    curDir,     \* curDir captured by atuinAdapt
    prBody,     \* the goroutine's loop body, fixed once curDir is captured:
                \* what lines 102-123 make of each line the backend can emit
    adPipe,     \* the adapter pipe: enriched lines written and not yet read
    wOpen,      \* w, the write end of adPipe, is open in this process
    rOpen,      \* r, the read end of adPipe, is open in this process
    selPc,      \* the selector process: "notstarted", "running", "exited"
    selRead,    \* the lines the selector has read from its stdin
    selEOF,     \* the selector has read end-of-stream
    selStatus,  \* the selector's exit status, "none" until it exits
    selFirst    \* history: the selector exited while the backend was running

inVars == <<getwd, bkAll>>
ctlVars == <<ctlPc, runErr>>
bkVars == <<bkPc, bkSent, bkPipe, bkStatus>>
prVars == <<prPc, prCur, prErr, prBody>>
selVars == <<selPc, selRead, selEOF, selStatus, selFirst>>

pipeVars ==
    <<inVars, procPc, ctlVars, bkVars, outOpen, prVars, curDir, adPipe,
      wOpen, rOpen, selVars>>

\* --------------------------------------- main and the preview: the state

VARIABLES
    args,       \* os.Args[1:], the arguments of the program
    mnPc,       \* the position of main: "main", "run", "fzfPreview", "returned"
    query,      \* the query run was called with
    pvRes,      \* what the two backend queries of the preview answer
    pvPc,       \* fzfPreview: "idle", "parse", "global", "dir", "join", "returned"
    pvOut,      \* the lines fzfPreview has printed to standard output
    pvSeen,     \* the map seen of line 208, as the set of its keys
    pvRan,      \* the backend queries fzfPreview has run, in order
    pvErrs,     \* what the calls of printResults have returned, in order
    pvErr       \* the errors in the error fzfPreview returned (none: nil)

mnVars == <<args, mnPc, query>>
pvVars == <<pvRes, pvPc, pvOut, pvSeen, pvRan, pvErrs, pvErr>>

vars == <<pipeVars, enVars, mnVars, pvVars>>

\* Both backend queries of the preview answer nothing.
NoQueryResults ==
    [global |-> [ok |-> TRUE, lines |-> <<>>],
     dir |-> [ok |-> TRUE, lines |-> <<>>]]

\* fzfPreview has not been called.
PvIdle ==
    /\ pvRes = NoQueryResults
    /\ pvPc = "idle"
    /\ pvOut = <<>>
    /\ pvSeen = {}
    /\ pvRan = <<>>
    /\ pvErrs = <<>>
    /\ pvErr = <<>>

\* main has called run with an empty query, the program having no arguments.
MainRan == args = <<>> /\ mnPc = "run" /\ query = <<>>

Str1(c) == <<c>>

\* A record that succeeded in the current directory, one that failed elsewhere,
\* and a line with too few fields.
LineOk == Join(<<Str1("c"), Str1("0"), Str1("/"), Str1("d"), Str1("t")>>, Delim)
LineFail == Join(<<Str1("k"), Str1("1"), Str1("h"), Str1("d"), Str1("t")>>, Delim)
LineShort == Join(<<Str1("c"), Str1("1"), Str1("/")>>, Delim)

BackendLines == {LineOk, LineFail, LineShort}

\* The loop body of lines 102-123 on the lines the backend emits here, worked
\* out once for each line and each value of curDir.
EnrichTable ==
    [line \in BackendLines |->
        [dir \in {g.dir : g \in GetwdResults} |-> Enrich(line, dir)]]

Enriched(line, dir) == EnrichTable[line][dir]

BackendOutputs == UNION {[1..n -> BackendLines] : n \in 0..MaxLines}

\* Exit statuses of the backend and of the selector (130: fzf on abort), as
\* strings; "none" stands for a process that has not exited.
BackendStatuses == {"0", "1"}
SelectorStatuses == {"0", "130"}

ProcAlive == procPc = "running"

\* Some process holds the read end of the adapter pipe: this process (r) or
\* the selector, which got it as its stdin (line 167).
AdReaders == (rOpen /\ ProcAlive) \/ selPc = "running"

\* Some process holds the write end of the adapter pipe: only this process (w).
AdWriters == wOpen /\ ProcAlive

\* This process holds the read end of the backend's stdout.
OutReaders == outOpen /\ ProcAlive

PipeInit ==
    /\ getwd \in GetwdResults
    /\ bkAll \in BackendOutputs
    /\ procPc = "running"
    /\ ctlPc = "Start"
    /\ runErr = "none"
    /\ bkPc = "notstarted"
    /\ bkSent = 0
    /\ bkPipe = <<>>
    /\ bkStatus = "none"
    /\ outOpen = FALSE
    /\ prPc = "idle"
    /\ prCur = <<>>
    /\ prErr = "none"
    /\ curDir = <<>>
    /\ prBody = [line \in BackendLines |-> NoRes]
    /\ adPipe = <<>>
    /\ wOpen = FALSE
    /\ rOpen = FALSE
    /\ selPc = "notstarted"
    /\ selRead = <<>>
    /\ selEOF = FALSE
    /\ selStatus = "none"
    /\ selFirst = FALSE

\* --------------------------------------------- enrichment specification

\* Values of a field: empty, the exit code of success, the working directory,
\* and strings made of the delimiter's character.
FieldChoices ==
    <<<<>>, <<"0">>, <<"/">>, <<":">>, <<"0", ":">>, <<":", ":">>, <<"0", "0">>,
      <<":", "0">>>>

FieldStrings == {FieldChoices[i] : i \in 1..MaxFieldChoices}

\* Lines the backend can emit: n fields joined by the delimiter.
InputLines(n) == {Join(f, Delim) : f \in [1..n -> FieldStrings]}

\* The enrichment specification leaves the pipeline unstarted, with nothing
\* for the backend to emit; the pipeline specification leaves the loop body idle.
PipeIdle == PipeInit /\ bkAll = <<>> /\ getwd.err

EnIdle ==
    /\ enPc = "idle"
    /\ enLine = <<>>
    /\ enGetwd = [dir |-> <<>>, err |-> TRUE]
    /\ enRes = NoRes

EnInit ==
    /\ PipeIdle
    /\ MainRan
    /\ PvIdle
    /\ enPc = "scanned"
    /\ \E n \in 1..NumFields : enLine \in InputLines(n)
    /\ enGetwd \in GetwdResults
    /\ enRes = NoRes

\* One iteration of the loop of lines 101-127 on enLine.
EnrichLine ==
    /\ enPc = "scanned"
    /\ enRes' = Enrich(enLine, enGetwd.dir)
    /\ enPc' = IF enRes'.panic THEN "panic" ELSE "written"
    /\ UNCHANGED <<enLine, enGetwd, pipeVars, mnVars, pvVars>>

EnNext == EnrichLine

SpecEnrich == EnInit /\ [][EnNext]_vars



\* ---------------------------------------------- pipeline: the controller

\* A slip of lines 47-59: the error is kept and run goes on to the wait.
RunFailsLate(e) == ctlPc' = "WaitBackend" /\ runErr' = e

\* run returns the error e; from line 50 on, the deferred atuin.stdout.Close()
\* runs first.
RunFails(e) == ctlPc' = "Failed" /\ runErr' = e

\* A slip of lines 57-65: run returns nil once the selector succeeded, without
\* waiting for the backend.
AfterSelectorNoWait == "Done"

\* Where run goes when fzf returned nil: to atuin.cmd.Wait() (line 61).
AfterSelector == "WaitBackend"

\* altuinSearch (lines 73-90) as called at line 46: the backend is started with
\* its stdout on a pipe, or StdoutPipe or Start fails and run returns the error.
AltuinSearch ==
    /\ ProcAlive
    /\ mnPc = "run"
    /\ ctlPc = "Start"
    /\ \E started \in BOOLEAN :
          IF started
          THEN /\ ctlPc' = "BackendLaunched"
               /\ bkPc' = "running"
               /\ outOpen' = TRUE
               /\ UNCHANGED runErr
          ELSE /\ RunFails("start atuin")
               /\ UNCHANGED <<bkPc, outOpen>>
    /\ UNCHANGED <<inVars, procPc, bkSent, bkPipe, bkStatus, prVars, curDir,
                   adPipe, wOpen, rOpen, selVars, enVars, mnVars, pvVars>>

\* atuinAdapt (lines 92-139) as called at line 52: os.Pipe, os.Getwd, the
\* producer goroutine is started and r is returned; or os.Pipe fails.
AtuinAdapt ==
    /\ ProcAlive
    /\ ctlPc = "BackendLaunched"
    /\ \E piped \in BOOLEAN :
          IF piped
          THEN /\ ctlPc' = "AdapterAttached"
               /\ rOpen' = TRUE
               /\ wOpen' = TRUE
               /\ curDir' = getwd.dir
               /\ prBody' = [line \in BackendLines |-> Enrich(line, curDir')]
               /\ prPc' = "scan"
               /\ UNCHANGED <<runErr, outOpen>>
          ELSE /\ RunFails("pipe")
               /\ outOpen' = FALSE
               /\ UNCHANGED <<rOpen, wOpen, curDir, prBody, prPc>>
    /\ UNCHANGED <<inVars, procPc, bkVars, prCur, prErr, adPipe, selVars, enVars, mnVars, pvVars>>

\* fzf (lines 141-171) as called at line 57, up to the start of the selector:
\* os.Executable or the start of fzf fails, or the selector runs with r as its
\* stdin and the controller blocks in fzfCmd.Run.
FzfStart ==
    /\ ProcAlive
    /\ ctlPc = "AdapterAttached"
    /\ \E outcome \in {"started", "self executable", "run fzf"} :
          IF outcome = "started"
          THEN /\ ctlPc' = "SelectorRunning"
               /\ selPc' = "running"
               /\ UNCHANGED <<runErr, outOpen>>
          ELSE /\ RunFails(outcome)
               /\ outOpen' = FALSE
               /\ UNCHANGED selPc
    /\ UNCHANGED <<inVars, procPc, bkVars, prVars, curDir, adPipe, wOpen, rOpen,
                   selRead, selEOF, selStatus, selFirst, enVars, mnVars, pvVars>>

\* A slip of lines 171-173: the exit status of an abort (130) is let through.
SelectorFailedNotAbort(status) == status \notin {"0", "130"}

\* fzfCmd.Run() returns an error (line 171) for every exit status but 0.
SelectorFailed(status) == status # "0"

\* fzfCmd.Run returns (lines 171-175) and run goes on (lines 57-59): a non-zero
\* exit of the selector is returned as an error.
FzfReturn ==
    /\ ProcAlive
    /\ ctlPc = "SelectorRunning"
    /\ selPc = "exited"
    /\ IF SelectorFailed(selStatus)
       THEN RunFails("run fzf")
       ELSE /\ ctlPc' = AfterSelector
            /\ UNCHANGED runErr
    /\ outOpen' = IF ctlPc' \in {"Done", "Failed"} THEN FALSE ELSE outOpen
    /\ UNCHANGED <<inVars, procPc, bkVars, prVars, curDir, adPipe, wOpen, rOpen,
                   selVars, enVars, mnVars, pvVars>>

\* atuin.cmd.Wait() (lines 61-65): returns once the backend has exited, closes
\* the read end of the backend's stdout, and reports a non-zero exit.
BackendWait ==
    /\ ProcAlive
    /\ ctlPc = "WaitBackend"
    /\ bkPc = "exited"
    /\ outOpen' = FALSE
    /\ IF bkStatus = "0"
       THEN ctlPc' = "Done" /\ UNCHANGED runErr
       ELSE RunFails("wait atuin")
    /\ UNCHANGED <<inVars, procPc, bkVars, prVars, curDir, adPipe, wOpen, rOpen,
                   selVars, enVars, mnVars, pvVars>>

\* main after run returned (lines 40-43): log.Fatal exits with 1, a return
\* from main exits with 0; either ends every goroutine.
MainExit ==
    /\ ProcAlive
    /\ ctlPc \in {"Done", "Failed"}
    /\ procPc' = IF runErr = "none" THEN "exit0" ELSE "exit1"
    /\ UNCHANGED <<inVars, ctlVars, bkVars, outOpen, prVars, curDir, adPipe,
                   wOpen, rOpen, selVars, enVars, mnVars, pvVars>>

\* r is referenced by nothing once fzf has returned (its last use is line 57,
\* and it is never closed): the finalizer os.Pipe set on it may close it at any
\* later garbage collection.
FinalizeR ==
    /\ ProcAlive
    /\ ctlPc \in {"WaitBackend", "Done", "Failed"}
    /\ rOpen
    /\ rOpen' = FALSE
    /\ UNCHANGED <<inVars, procPc, ctlVars, bkVars, outOpen, prVars, curDir,
                   adPipe, wOpen, selVars, enVars, mnVars, pvVars>>

\* ------------------------------------------------ pipeline: the backend

\* The backend writes its next line to its stdout; the write blocks while the
\* pipe is full.
BkEmit ==
    /\ bkPc = "running"
    /\ bkSent < Len(bkAll)
    /\ OutReaders
    /\ Len(bkPipe) < BkCap
    /\ bkPipe' = Append(bkPipe, bkAll[bkSent + 1])
    /\ bkSent' = bkSent + 1
    /\ UNCHANGED <<inVars, procPc, ctlVars, bkPc, bkStatus, outOpen, prVars,
                   curDir, adPipe, wOpen, rOpen, selVars, enVars, mnVars, pvVars>>

\* The backend writes to its stdout after the read end was closed: SIGPIPE.
BkSigpipe ==
    /\ bkPc = "running"
    /\ bkSent < Len(bkAll)
    /\ ~OutReaders
    /\ bkPc' = "exited"
    /\ bkStatus' = "sigpipe"
    /\ UNCHANGED <<inVars, procPc, ctlVars, bkSent, bkPipe, outOpen, prVars,
                   curDir, adPipe, wOpen, rOpen, selVars, enVars, mnVars, pvVars>>

\* The backend has written all its lines and exits.
BkExit ==
    /\ bkPc = "running"
    /\ bkSent = Len(bkAll)
    /\ bkPc' = "exited"
    /\ bkStatus' \in BackendStatuses
    /\ UNCHANGED <<inVars, procPc, ctlVars, bkSent, bkPipe, outOpen, prVars,
                   curDir, adPipe, wOpen, rOpen, selVars, enVars, mnVars, pvVars>>

\* ----------------------------------------------- pipeline: the producer

\* An unrecovered panic in the goroutine ends the whole process.
ProdPanics(why) == prPc' = "panic" /\ prErr' = why /\ procPc' = "crashed"

\* A slip of line 101: the producer reads its input to the end before it
\* handles the first line.
ScanReadyAtEnd == bkPipe # <<>> /\ bkPc = "exited"

\* scanner.Scan() (line 101) returns as soon as a line is there to read.
ScanReady == bkPipe # <<>>

\* A slip of line 115: the line is written twice.
PipePutTwice(pipe, line) == Append(Append(pipe, line), line)

\* fmt.Fprintln(w, ...) (line 115): the line goes to the end of the pipe.
PipePut(pipe, line) == Append(pipe, line)

\* scanner.Scan() returns true, and lines 102-123 make the enriched line of
\* scanner.Text(); fewer than 5 parts panic at line 103.
ProdScanLine ==
    /\ ProcAlive
    /\ prPc = "scan"
    /\ OutReaders
    /\ ScanReady
    /\ bkPipe' = Tail(bkPipe)
    /\ LET res == prBody[Head(bkPipe)]
       IN IF res.panic
          THEN ProdPanics("index") /\ UNCHANGED prCur
          ELSE /\ prPc' = "write"
               /\ prCur' = res.out
               /\ UNCHANGED <<prErr, procPc>>
    /\ UNCHANGED <<inVars, ctlVars, bkPc, bkSent, bkStatus, outOpen, curDir,
                   prBody, adPipe, wOpen, rOpen, selVars, enVars, mnVars, pvVars>>

\* scanner.Scan() returns false at end-of-stream: the backend has exited and
\* its pipe is drained; scanner.Err() is nil (line 128).
ProdScanEOF ==
    /\ ProcAlive
    /\ prPc = "scan"
    /\ OutReaders
    /\ bkPipe = <<>>
    /\ bkPc = "exited"
    /\ prPc' = "close"
    /\ UNCHANGED <<inVars, procPc, ctlVars, bkVars, outOpen, prCur, prErr, prBody,
                   curDir, adPipe, wOpen, rOpen, selVars, enVars, mnVars, pvVars>>

\* scanner.Scan() returns false on a read error, atuin.stdout having been
\* closed by the controller: scanner.Err() is not nil and line 130 panics.
ProdScanErr ==
    /\ ProcAlive
    /\ prPc = "scan"
    /\ ~outOpen
    /\ ProdPanics("read")
    /\ UNCHANGED <<inVars, ctlVars, bkVars, outOpen, prCur, prBody, curDir, adPipe,
                   wOpen, rOpen, selVars, enVars, mnVars, pvVars>>

\* fmt.Fprintln(w, ...) succeeds (line 115); it blocks while the pipe is full.
ProdWrite ==
    /\ ProcAlive
    /\ prPc = "write"
    /\ AdReaders
    /\ Len(adPipe) < AdCap
    /\ adPipe' = PipePut(adPipe, prCur)
    /\ prPc' = "scan"
    /\ UNCHANGED <<inVars, procPc, ctlVars, bkVars, outOpen, prCur, prErr, prBody,
                   curDir, wOpen, rOpen, selVars, enVars, mnVars, pvVars>>

\* fmt.Fprintln(w, ...) fails, no read end of the pipe being open any more
\* (EPIPE): line 125 panics.
ProdWriteErr ==
    /\ ProcAlive
    /\ prPc = "write"
    /\ ~AdReaders
    /\ ProdPanics("write")
    /\ UNCHANGED <<inVars, ctlVars, bkVars, outOpen, prCur, prBody, curDir, adPipe,
                   wOpen, rOpen, selVars, enVars, mnVars, pvVars>>

\* w.Close() (line 133), and the goroutine ends.
ProdClose ==
    /\ ProcAlive
    /\ prPc = "close"
    /\ wOpen' = FALSE
    /\ prPc' = "done"
    /\ UNCHANGED <<inVars, procPc, ctlVars, bkVars, outOpen, prCur, prErr, prBody,
                   curDir, adPipe, rOpen, selVars, enVars, mnVars, pvVars>>

\* ----------------------------------------------- pipeline: the selector

\* The selector reads a line from its stdin.
SelRead ==
    /\ selPc = "running"
    /\ adPipe # <<>>
    /\ selRead' = Append(selRead, Head(adPipe))
    /\ adPipe' = Tail(adPipe)
    /\ UNCHANGED <<inVars, procPc, ctlVars, bkVars, outOpen, prVars, curDir,
                   wOpen, rOpen, selPc, selEOF, selStatus, selFirst, enVars, mnVars, pvVars>>

\* The selector reads end-of-stream: the pipe is empty and no write end is open.
SelSeeEOF ==
    /\ selPc = "running"
    /\ ~selEOF
    /\ adPipe = <<>>
    /\ ~AdWriters
    /\ selEOF' = TRUE
    /\ UNCHANGED <<inVars, procPc, ctlVars, bkVars, outOpen, prVars, curDir,
                   adPipe, wOpen, rOpen, selPc, selRead, selStatus, selFirst,
                   enVars, mnVars, pvVars>>

\* The selector exits, on a selection or an abort of the user, at any time.
SelExit ==
    /\ selPc = "running"
    /\ selPc' = "exited"
    /\ selStatus' \in SelectorStatuses
    /\ selFirst' = (bkPc = "running")
    /\ UNCHANGED <<inVars, procPc, ctlVars, bkVars, outOpen, prVars, curDir,
                   adPipe, wOpen, rOpen, selRead, selEOF, enVars, mnVars, pvVars>>

\* ------------------------------------------------ the preview: strings

\* tcolor.Green
Green == 2

\* The width of the command column of a related command: "%-40.40s" (line 221).
CmdWidth == 40

\* The width of the label column of the execution details: "%-10s" (line 196).
LabelWidth == 10

\* The number of box-drawing characters of the rule of lines 191, 195 and 202.
RuleLen == 51

\* tcolor.Bold: "\033[1m%s\033[0m"
Bold(s) == <<"E", "[", "1", "m">> \o s \o <<"E", "[", "0", "m">>

\* The rule printed under a title; "-" stands for the character U+2500.
HeaderRule == [i \in 1..RuleLen |-> "-"]

\* fmt's "%-Ns": s padded with spaces on the right to the width w.
PadRight(s, w) ==
    IF Len(s) >= w THEN s ELSE s \o [i \in 1..(w - Len(s)) |-> " "]

\* fmt's "%-N.Ns": s cut to w characters, then padded to the width w.
PadTrunc(s, w) ==
    PadRight(IF Len(s) > w THEN SubSeq(s, 1, w) ELSE s, w)

\* fmt.Printf("%-10s %s\n", label, value) of lines 196-199.
DetailLine(label, value) == PadRight(label, LabelWidth) \o <<" ">> \o value

\* fmt.Printf("%-40.40s (%s)\n", parts[0], parts[1]) of line 221.
ResultLine(parts) ==
    PadTrunc(parts[1], CmdWidth) \o <<" ", "(">> \o parts[2] \o <<")">>

\* The separator of the backend's answers to the preview: "\t".
Tab == <<"\t">>

\* strings.SplitN(s, sep, 2): cut at the leftmost occurrence of sep only.
SplitN2(s, sep) ==
    LET i == Index(s, sep)
    IN IF i = 0
       THEN <<s>>
       ELSE <<SubSeq(s, 1, i - 1), SubSeq(s, i + Len(sep), Len(s))>>

TitleCommand ==
    <<"F", "u", "l", "l", " ", "C", "o", "m", "m", "a", "n", "d">>

TitleDetails ==
    <<"E", "x", "e", "c", "u", "t", "i", "o", "n", " ", "D", "e", "t",
      "a", "i", "l", "s">>

TitleSimilar ==
    <<"R", "e", "c", "e", "n", "t", " ", "S", "i", "m", "i", "l", "a",
      "r", " ", "C", "o", "m", "m", "a", "n", "d", "s">>

LabelStatus == <<"S", "t", "a", "t", "u", "s", ":">>
LabelRanIn == <<"R", "a", "n", " ", "I", "n", ":">>
LabelDuration == <<"D", "u", "r", "a", "t", "i", "o", "n", ":">>
LabelWhen == <<"W", "h", "e", "n", ":">>

\* exitCol of lines 185-188.
ExitCol(exitCode) == IF exitCode # <<"0">> THEN Red ELSE Green

\* The thirteen lines printed at lines 190-202 for the parts of a record.
Header(parts) ==
    <<Bold(TitleCommand), HeaderRule, parts[1], <<>>,
      Bold(TitleDetails), HeaderRule,
      DetailLine(LabelStatus, Foreground(ExitCol(parts[2]), parts[2])),
      DetailLine(LabelRanIn, parts[3]),
      DetailLine(LabelDuration, parts[4]),
      DetailLine(LabelWhen, parts[5]),
      <<>>, Bold(TitleSimilar), HeaderRule>>

\* A slip of line 180: one part too few is let through.
TooFewPartsLax(parts) == Len(parts) < NumFields - 1

\* The check of line 180: len(parts) < 5.
TooFewParts(parts) == Len(parts) < NumFields

\* globalSearch and dirSearch of lines 205-206: the prefix searched and, for
\* the directory-scoped query, the --cwd.
GlobalSearch(parts) == [scope |-> "global", prefix |-> parts[1], cwd |-> <<>>]
DirSearch(parts) == [scope |-> "dir", prefix |-> parts[1], cwd |-> parts[3]]

\* A slip of line 217: lines are remembered by their command only.
SeenKeyCommand(line) == SplitN2(line, Tab)[1]

\* The key of the map seen (lines 217-218): the whole line.
SeenKey(line) == line

\* The loop of lines 215-224 over the lines of one answer: a line whose key
\* was seen is skipped; a new one is remembered and, when it has a tab,
\* printed as a related command.
RECURSIVE ScanResults(_, _, _)
ScanResults(lines, seen, out) ==
    IF lines = <<>>
    THEN [seen |-> seen, out |-> out]
    ELSE LET line == Head(lines)
             parts == SplitN2(line, Tab)
         IN IF SeenKey(line) \in seen
            THEN ScanResults(Tail(lines), seen, out)
            ELSE ScanResults(Tail(lines), seen \cup {SeenKey(line)},
                             IF Len(parts) = 2
                             THEN Append(out, ResultLine(parts))
                             ELSE out)

\* printResults (lines 209-226) for the answer res of the query named scope:
\* when cmd.Output() fails its error is returned and nothing is printed.
PrintResults(res, scope, seen, out) ==
    IF ~res.ok
    THEN [err |-> scope, seen |-> seen, out |-> out]
    ELSE [err |-> "nil"] @@ ScanResults(res.lines, seen, out)

\* A slip of line 228: only the first failure is returned.
ErrorsJoinFirst(errs) ==
    LET failed == SelectSeq(errs, LAMBDA e : e # "nil")
    IN IF failed = <<>> THEN <<>> ELSE <<Head(failed)>>

\* errors.Join (line 228): the errors that are not nil, in order; nil (here the
\* empty sequence) when all are nil.
ErrorsJoin(errs) == SelectSeq(errs, LAMBDA e : e # "nil")

\* ---------------------------------------------- main and the preview: inputs

\* "--preview"
PreviewFlag == <<"-", "-", "p", "r", "e", "v", "i", "e", "w">>

\* Most lines a backend query of the preview answers (the program asks for
\* --limit 5).
MaxResults == 2

\* Most lines the backend emits in a run started from main.
MainMaxLines == 1

\* Lines of the backend's answers: two commands in two directories, one of
\* them in both, and a line without a tab.
PreviewLines ==
    {<<"a", "\t", "/", "x">>, <<"b", "\t", "/", "y">>, <<"a", "\t", "/", "y">>,
     <<"n">>}

\* What a backend query answers: its output, and whether it succeeded
\* (cmd.Output() of line 210). A query that fails has written one line here.
QueryResults ==
    [ok : {TRUE}, lines : UNION {[1..n -> PreviewLines] : n \in 0..MaxResults}]
        \cup {[ok |-> FALSE, lines |-> <<<<"a", "\t", "/", "x">>>>]}

\* A record as the selector passes it ({1} .. {6} joined, line 147), and one of
\* four fields.
DataSix ==
    Join(<<Str1("c"), Str1("0"), Str1("/"), Str1("d"), Str1("t"), Str1(" ")>>,
         Delim)
DataFour == Join(<<Str1("c"), Str1("1"), Str1("/"), Str1("d")>>, Delim)

PreviewData == {LineOk, LineFail, LineShort, DataFour, DataSix}

QueryArg == <<"q">>

\* Command lines of the program.
MainArgs ==
    {<<>>, <<QueryArg>>, <<QueryArg, PreviewFlag>>, <<PreviewFlag>>}
        \cup {<<PreviewFlag, d>> : d \in PreviewData}

\* The variables of the pipeline but procPc.
runVars ==
    <<inVars, ctlVars, bkVars, outOpen, prVars, curDir, adPipe, wOpen, rOpen,
      selVars>>

\* ------------------------------------------------------------------ main

\* A slip of line 25: --preview is looked for among all the arguments.
IsPreviewAnywhere(a) == \E i \in 1..Len(a) : a[i] = PreviewFlag

\* The condition of line 25: len(os.Args) > 1 && os.Args[1] == "--preview".
IsPreview(a) == Len(a) > 0 /\ a[1] = PreviewFlag

\* initialQuery of lines 35-38.
InitialQuery(a) == IF Len(a) > 0 THEN a[1] ELSE <<>>

\* main up to the call of fzfPreview or of run (lines 24-40); --preview with
\* no record returns at once (line 32).
Main ==
    /\ ProcAlive
    /\ mnPc = "main"
    /\ IF IsPreview(args)
       THEN IF Len(args) > 1
            THEN /\ mnPc' = "fzfPreview"
                 /\ pvPc' = "parse"
                 /\ UNCHANGED <<procPc, query>>
            ELSE /\ mnPc' = "returned"
                 /\ procPc' = "exit0"
                 /\ UNCHANGED <<pvPc, query>>
       ELSE /\ mnPc' = "run"
            /\ query' = InitialQuery(args)
            /\ UNCHANGED <<procPc, pvPc>>
    /\ UNCHANGED <<args, pvRes, pvOut, pvSeen, pvRan, pvErrs, pvErr, runVars,
                   enVars>>

\* ------------------------------------------------------------ fzfPreview

\* fzfPreview from its call to line 202: the record is split, fewer than 5
\* parts return the format error, otherwise the header is printed. Parts that
\* pass the check and are fewer than line 183 indexes panic there.
PvParse ==
    /\ ProcAlive
    /\ pvPc = "parse"
    /\ LET parts == Split(args[2], Delim)
       IN IF TooFewParts(parts)
          THEN /\ pvPc' = "returned"
               /\ pvErr' = <<"data format incorrect">>
               /\ UNCHANGED <<pvOut, procPc>>
          ELSE IF Len(parts) < NumFields
          THEN /\ pvPc' = "panic"
               /\ procPc' = "crashed"
               /\ UNCHANGED <<pvOut, pvErr>>
          ELSE /\ pvPc' = "global"
               /\ pvOut' = pvOut \o Header(parts)
               /\ UNCHANGED <<pvErr, procPc>>
    /\ UNCHANGED <<mnVars, pvRes, pvSeen, pvRan, pvErrs, runVars, enVars>>

\* printResults(globalSearch) (line 229).
PvGlobal ==
    /\ ProcAlive
    /\ pvPc = "global"
    /\ LET parts == Split(args[2], Delim)
           res == PrintResults(pvRes.global, "global", pvSeen, pvOut)
       IN /\ pvRan' = Append(pvRan, GlobalSearch(parts))
          /\ pvErrs' = Append(pvErrs, res.err)
          /\ pvSeen' = res.seen
          /\ pvOut' = res.out
    /\ pvPc' = "dir"
    /\ UNCHANGED <<mnVars, pvRes, pvErr, pipeVars, enVars>>

\* printResults(dirSearch) (line 230): run whatever the first call returned.
PvDir ==
    /\ ProcAlive
    /\ pvPc = "dir"
    /\ LET parts == Split(args[2], Delim)
           res == PrintResults(pvRes.dir, "dir", pvSeen, pvOut)
       IN /\ pvRan' = Append(pvRan, DirSearch(parts))
          /\ pvErrs' = Append(pvErrs, res.err)
          /\ pvSeen' = res.seen
          /\ pvOut' = res.out
    /\ pvPc' = "join"
    /\ UNCHANGED <<mnVars, pvRes, pvErr, pipeVars, enVars>>

\* errors.Join of the two results, and the return (lines 228-232).
PvJoin ==
    /\ ProcAlive
    /\ pvPc = "join"
    /\ pvErr' = ErrorsJoin(pvErrs)
    /\ pvPc' = "returned"
    /\ UNCHANGED <<mnVars, pvRes, pvOut, pvSeen, pvRan, pvErrs, pipeVars,
                   enVars>>

\* main after fzfPreview returned (lines 27-30): log.Fatal exits with 1, the
\* return with 0.
PreviewExit ==
    /\ ProcAlive
    /\ mnPc = "fzfPreview"
    /\ pvPc = "returned"
    /\ mnPc' = "returned"
    /\ procPc' = IF pvErr = <<>> THEN "exit0" ELSE "exit1"
    /\ UNCHANGED <<args, query, pvVars, runVars, enVars>>

\* ------------------------------------------------------ specifications

Init == PipeInit /\ EnIdle /\ MainRan /\ PvIdle

Next ==
    \/ AltuinSearch
    \/ AtuinAdapt
    \/ FzfStart
    \/ FzfReturn
    \/ BackendWait
    \/ MainExit
    \/ FinalizeR
    \/ BkEmit
    \/ BkSigpipe
    \/ BkExit
    \/ ProdScanLine
    \/ ProdScanEOF
    \/ ProdScanErr
    \/ ProdWrite
    \/ ProdWriteErr
    \/ ProdClose
    \/ SelRead
    \/ SelSeeEOF
    \/ SelExit

Spec == Init /\ [][Next]_vars

\* The Go scheduler runs a goroutine that can run, and the selector reads its
\* stdin as long as there is something to read. Nothing is assumed of the
\* backend (it may stall), of the user (the selector may never exit) or of the
\* garbage collector.
Fairness ==
    /\ WF_vars(ProdScanLine)
    /\ WF_vars(ProdScanEOF)
    /\ WF_vars(ProdWrite)
    /\ WF_vars(ProdClose)
    /\ WF_vars(SelRead)
    /\ WF_vars(SelSeeEOF)

FairSpec == Init /\ [][Next]_vars /\ Fairness

\* fzfPreview called by main with a record, for every answer of the two
\* backend queries; the pipeline is never started.
PvInit ==
    /\ PipeIdle
    /\ EnIdle
    /\ args \in {<<PreviewFlag, d>> : d \in PreviewData}
    /\ mnPc = "fzfPreview"
    /\ query = <<>>
    /\ pvRes \in [global : QueryResults, dir : QueryResults]
    /\ pvPc = "parse"
    /\ pvOut = <<>>
    /\ pvSeen = {}
    /\ pvRan = <<>>
    /\ pvErrs = <<>>
    /\ pvErr = <<>>

PvNext == PvParse \/ PvGlobal \/ PvDir \/ PvJoin \/ PreviewExit

SpecPreview == PvInit /\ [][PvNext]_vars

\* The program from the start of main, for every command line; what the mode
\* chosen never consults (the backend's lines in preview mode, the queries'
\* answers in search mode) is left empty.
MainInit ==
    /\ args \in MainArgs
    /\ mnPc = "main"
    /\ query = <<>>
    /\ pvPc = "idle"
    /\ pvOut = <<>>
    /\ pvSeen = {}
    /\ pvRan = <<>>
    /\ pvErrs = <<>>
    /\ pvErr = <<>>
    /\ EnIdle
    /\ IF Len(args) > 1 /\ args[1] = PreviewFlag
       THEN /\ PipeIdle
            /\ pvRes \in [global : QueryResults, dir : QueryResults]
       ELSE /\ PipeInit
            /\ Len(bkAll) <= MainMaxLines
            /\ pvRes = NoQueryResults

MainNext == Main \/ PvNext \/ Next

SpecMain == MainInit /\ [][MainNext]_vars

\* ------------------------------------------------ claims: the pipeline

\* The lines of the backend that have at least NumFields fields.
WellFormedLines == {line \in BackendLines : Len(Split(line, Delim)) >= NumFields}

\* The first n lines of the backend have at least NumFields fields each.
FirstWellFormed(n) ==
    \A i \in 1..n : i <= Len(bkAll) => bkAll[i] \in WellFormedLines

AllWellFormed == FirstWellFormed(Len(bkAll))

\* The i-th line of the backend, enriched.
EnrichedLine(i) == Enriched(bkAll[i], getwd.dir).out

\* Every step but the garbage collector's.
ProgramStep ==
    \/ AltuinSearch \/ AtuinAdapt \/ FzfStart \/ FzfReturn \/ BackendWait
    \/ MainExit \/ BkEmit \/ BkSigpipe \/ BkExit \/ ProdScanLine
    \/ ProdScanEOF \/ ProdScanErr \/ ProdWrite \/ ProdWriteErr \/ ProdClose
    \/ SelRead \/ SelSeeEOF \/ SelExit

\* This process is alive and no process can take a step: whoever waits, waits
\* for good (or until a finalizer closes r).
Deadlocked == ProcAlive /\ ~ENABLED ProgramStep

C2_WriteFailureBenign == prErr = "write" => procPc # "crashed"

\* The selector stopped reading before it had read every line of a
\* well-formed backend output.
SelectorStoppedEarly ==
    selPc = "exited" /\ Len(selRead) < Len(bkAll) /\ AllWellFormed

\* C3 (as claimed): when the selector stops reading after fewer records than
\* the backend emits, the producer neither raises an unhandled error nor stays
\* blocked for good in its write to the pipe.
C3_ProducerTerminates ==
    SelectorStoppedEarly =>
        /\ prPc # "panic"
        /\ ~(prPc = "write" /\ Deadlocked)

\* C4 (as claimed): after the selector exited with status 0 there is no
\* deadlock of the backend blocked in a write to its stdout, the producer
\* blocked in a write to the adapter pipe and the controller blocked in Wait.
C4_NoDeadlock ==
    (selPc = "exited" /\ selStatus = "0") =>
        ~(/\ ctlPc = "WaitBackend"
          /\ prPc = "write"
          /\ bkPc = "running"
          /\ Deadlocked)

\* C5: whenever run has returned nil, the backend process has exited.
C5_BackendTerminated == ctlPc = "Done" => bkPc = "exited"

\* run has returned nil, the selector having exited while the backend was
\* still running.
C5_Witness == ctlPc = "Done" /\ runErr = "none" /\ selFirst

\* C6 (as claimed): when the producer has ended, at the end of the backend's
\* stream, on a read error or on a write error, w is closed.
C6_WriteEndClosed ==
    (prPc = "done" \/ (prPc = "panic" /\ prErr \in {"read", "write"}))
        => ~wOpen

\* The lines the backend has emitted so far that precede its first line with
\* fewer than NumFields fields.
EmittedWellFormed ==
    CHOOSE i \in 0..bkSent :
        /\ FirstWellFormed(i)
        /\ i = bkSent \/ ~FirstWellFormed(i + 1)

\* C7: a selector that keeps reading receives, again and again, every
\* well-formed line the backend has emitted so far, whether or not the backend
\* ever emits more or ends its stream: the lines are not held back until the
\* backend finishes.
C7_Streaming ==
    []<>(selPc = "running" => Len(selRead) >= EmittedWellFormed)

\* The selector has read both lines the backend has emitted so far, and the
\* backend, still running, has more to emit.
C7_Witness ==
    /\ selPc = "running"
    /\ bkPc = "running"
    /\ bkSent = 2
    /\ Len(bkAll) > 2
    /\ Len(selRead) = 2

\* A line of exactly NumFields fields was enriched and written.
WellFormedWritten == enPc = "written" /\ Len(enRes.parts) = NumFields

\* C8: for every record the adapter writes, the exit marker is blank (one
\* space) when the exit code is exactly "0", and for every other exit code it
\* contains that exit code literally.
C8_ExitMarker ==
    enPc = "written" =>
        LET code == enRes.parts[2]
            marker == enRes.fields[6]
        IN /\ code = <<"0">> => marker = <<" ">>
           /\ code # <<"0">> => Contains(marker, code)

\* A record with a non-empty exit code other than "0" was written, and its
\* marker is not blank.
C8_Witness ==
    /\ enPc = "written"
    /\ enRes.parts[2] \notin {<<>>, <<"0">>}
    /\ enRes.fields[6] # <<" ">>

\* C9 (as claimed): dirContext is non-empty exactly when the directory equals
\* the working directory captured at adapter start, and when the working
\* directory could not be determined no record gets a non-empty dirContext.
C9_DirContext ==
    enPc = "written" =>
        ((enRes.fields[7] # <<>>)
            <=> (~enGetwd.err /\ enRes.parts[3] = enGetwd.dir))

\* C10 (as claimed): for every well-formed 5-field input line, the written line
\* splits on the delimiter into exactly 7 fields: the five input fields,
\* unchanged and in order, then exitMarker and dirContext.
C10_SevenFields ==
    WellFormedWritten =>
        Split(enRes.out, Delim)
            = enRes.parts \o <<ExitStatus(enRes.parts[2]),
                               DirCtx(enRes.parts[3], enGetwd.dir)>>

\* ------------------------------------------------- claims on the preview

\* The answers of the global query followed by those of the directory query.
Merged == pvRes.global.lines \o pvRes.dir.lines

\* The places of the list m that hold a line with a tab that no earlier place
\* holds.
FirstSeenIn(m) == {i \in 1..Len(m) :
                      /\ Len(SplitN2(m[i], Tab)) = 2
                      /\ \A j \in 1..(i - 1) : m[j] # m[i]}

FirstSeen == FirstSeenIn(Merged)

\* The k-th place of FirstSeenIn(m), in increasing order.
NthFirstSeenIn(m, k) ==
    CHOOSE i \in FirstSeenIn(m) :
        Cardinality({j \in FirstSeenIn(m) : j <= i}) = k

NthFirstSeen(k) == NthFirstSeenIn(Merged, k)

\* What fzfPreview printed after the header.
Related ==
    SubSeq(pvOut, Len(Header(Split(args[2], Delim))) + 1, Len(pvOut))

\* Both queries have run and succeeded.
BothSucceeded ==
    /\ Len(pvRan) = 2
    /\ pvRes.global.ok
    /\ pvRes.dir.ok

\* C11: when both queries of the preview succeed, the related commands
\* printed are the global answers followed by the directory answers with every
\* line removed that occurred earlier: each distinct command<TAB>directory
\* line is printed exactly once, at the place of its first occurrence (and a
\* line without a tab is not printed).
C11_Dedup ==
    BothSucceeded =>
        /\ Len(Related) = Cardinality(FirstSeen)
        /\ \A k \in 1..Len(Related) :
              Related[k] = ResultLine(SplitN2(Merged[NthFirstSeen(k)], Tab))

\* The global query answered a in /x and b in /y, the directory query b in /y
\* and a in /y, and three related commands were printed.
C11_Witness ==
    /\ BothSucceeded
    /\ pvPc = "returned"
    /\ pvRes.global.lines = <<<<"a", "\t", "/", "x">>, <<"b", "\t", "/", "y">>>>
    /\ pvRes.dir.lines = <<<<"b", "\t", "/", "y">>, <<"a", "\t", "/", "y">>>>
    /\ Len(Related) = 3

\* fzfPreview went past its format check and has returned.
PreviewReturned ==
    pvPc = "returned" /\ Len(Split(args[2], Delim)) >= NumFields

\* The answers of the queries that succeeded, the global query's first.
Shown ==
    (IF pvRes.global.ok THEN pvRes.global.lines ELSE <<>>)
        \o (IF pvRes.dir.ok THEN pvRes.dir.lines ELSE <<>>)

\* C12: whatever the global query returned, the directory query is run after
\* it; the answers of a query that succeeded are printed, deduplicated; and
\* the error returned holds the failure of exactly the queries that failed,
\* both when both failed.
C12_FailuresCollected ==
    PreviewReturned =>
        LET parts == Split(args[2], Delim)
        IN /\ pvRan = <<GlobalSearch(parts), DirSearch(parts)>>
           /\ Len(Related) = Cardinality(FirstSeenIn(Shown))
           /\ \A k \in 1..Len(Related) :
                 Related[k]
                     = ResultLine(SplitN2(Shown[NthFirstSeenIn(Shown, k)], Tab))
           /\ \A q \in {"global", "dir"} :
                 (\E i \in 1..Len(pvErr) : pvErr[i] = q) <=> ~pvRes[q].ok
           /\ Len(pvErr) <= 2

\* The global query failed, the directory query answered the same line twice:
\* that line was printed once and the error returned is the global failure.
C12_Witness ==
    /\ PreviewReturned
    /\ ~pvRes.global.ok
    /\ pvRes.dir.ok
    /\ pvRes.dir.lines = <<<<"b", "\t", "/", "y">>, <<"b", "\t", "/", "y">>>>
    /\ Len(Related) = 1
    /\ pvErr = <<"global">>

\* C13: fzfPreview called with a record of fewer than 5 parts returns the
\* format error, and in no state has it printed anything or run a backend
\* query.
C13_FormatError ==
    Len(Split(args[2], Delim)) < NumFields =>
        /\ pvOut = <<>>
        /\ pvRan = <<>>
        /\ pvPc \in {"parse", "returned"}
        /\ pvPc = "returned" => pvErr = <<"data format incorrect">>

\* fzfPreview has returned the format error for the record c:::1:::/ and main
\* has ended the process with a non-zero exit.
C13_Witness ==
    /\ args[2] = LineShort
    /\ pvPc = "returned"
    /\ pvErr = <<"data format incorrect">>
    /\ procPc = "exit1"

\* ----------------------------------------- further claims on the pipeline

\* The selector has exited and fzf has returned to run.
FzfReturned == selPc = "exited" /\ ctlPc # "SelectorRunning"

\* C14: once the selector has exited and fzf has returned, fzf has returned
\* an error exactly when the exit status is not 0, and then run has returned
\* that error; after an exit with status 0 run goes on to wait for the backend.
C14_ExitStatusGates ==
    FzfReturned =>
        /\ (runErr = "run fzf") <=> (selStatus # "0")
        /\ selStatus # "0" => ctlPc = "Failed"
        /\ selStatus = "0" => ctlPc \in {"WaitBackend", "Done", "Failed"}

\* The user aborted the selector (status 130) after it had read a line; run
\* returned the error and main ended the process with a non-zero exit.
C14_Witness ==
    /\ selStatus = "130"
    /\ Len(selRead) = 1
    /\ ctlPc = "Failed"
    /\ runErr = "run fzf"
    /\ procPc = "exit1"

\* The steps of run in their order: a pair is a step and the step after it.
StepOrder ==
    {<<"Start", "BackendLaunched">>, <<"BackendLaunched", "AdapterAttached">>,
     <<"AdapterAttached", "SelectorRunning">>,
     <<"SelectorRunning", "WaitBackend">>, <<"WaitBackend", "Done">>}

\* What a failed step leaves unstarted: a backend that failed to launch means
\* no adapter and no selector, an adapter that failed means no selector, and
\* run holds an error exactly when it has failed.
FailureAborts ==
    /\ (ctlPc = "Failed") <=> (runErr # "none")
    /\ runErr = "start atuin" =>
          /\ bkPc = "notstarted"
          /\ prPc = "idle" /\ ~rOpen /\ ~wOpen
          /\ selPc = "notstarted"
    /\ runErr = "pipe" =>
          /\ prPc = "idle" /\ ~rOpen /\ ~wOpen
          /\ selPc = "notstarted"
    /\ runErr = "self executable" => selPc = "notstarted"

\* C15: run only moves from a step to the step after it in the order Start,
\* BackendLaunched, AdapterAttached, SelectorRunning, WaitBackend (the wait
\* for the backend), Done, or from a step that fails directly to Failed,
\* where it stays with the error of that step: the steps after a failed step
\* are never taken, the backend, the adapter and the selector being started
\* only by their own step.
C15_ControllerOrder ==
    /\ []FailureAborts
    /\ [][/\ ctlPc' # ctlPc =>
                \/ <<ctlPc, ctlPc'>> \in StepOrder
                \/ /\ ctlPc \notin {"Done", "Failed"}
                   /\ ctlPc' = "Failed"
                   /\ runErr = "none"
          /\ runErr # "none" => runErr' = runErr
          /\ bkPc = "notstarted" /\ bkPc' # "notstarted" => ctlPc = "Start"
          /\ prPc = "idle" /\ prPc' # "idle" => ctlPc = "BackendLaunched"
          /\ selPc = "notstarted" /\ selPc' # "notstarted"
                => ctlPc = "AdapterAttached"]_vars

\* The adapter failed (os.Pipe) after the backend was launched: run has
\* failed with that error and the selector was never started.
C15_Witness ==
    /\ ctlPc = "Failed"
    /\ runErr = "pipe"
    /\ bkPc # "notstarted"
    /\ selPc = "notstarted"

\* The lines the producer has written to the adapter pipe, in order: those the
\* selector has read and those still in the pipe.
Written == selRead \o adPipe

\* The place of the first line of the backend with fewer than NumFields fields.
FirstShort ==
    CHOOSE k \in 1..Len(bkAll) :
        /\ bkAll[k] \notin WellFormedLines
        /\ FirstWellFormed(k - 1)

\* C16: when the backend emits a line of fewer than 5 fields, the lines
\* written to the pipe are at all times enriched lines that precede it, in
\* order: neither that line nor a line after it is ever written. When the
\* producer fails on that line the failure ends the process, and every line
\* before it has been written.
C16_MalformedLineFatal ==
    ~AllWellFormed =>
        /\ Len(Written) < FirstShort
        /\ \A i \in 1..Len(Written) : Written[i] = EnrichedLine(i)
        /\ prErr = "index" =>
              /\ procPc = "crashed"
              /\ Len(Written) = FirstShort - 1

\* The backend emitted a well-formed line, a line of three fields and another
\* well-formed line: the producer failed on the second, and the selector has
\* read the first and nothing else.
C16_Witness ==
    /\ bkAll = <<LineOk, LineShort, LineFail>>
    /\ prErr = "index"
    /\ procPc = "crashed"
    /\ Len(selRead) = 1
    /\ adPipe = <<>>

\* ------------------------------------------------------- claims on main

\* The first argument is --preview.
PreviewMode == Len(args) > 0 /\ args[1] = PreviewFlag

\* Nothing of the search pipeline was started: run is at its start, there is
\* no backend, no adapter and no selector.
SearchUnstarted ==
    /\ ctlPc = "Start" /\ runErr = "none"
    /\ bkPc = "notstarted"
    /\ prPc = "idle" /\ ~rOpen /\ ~wOpen
    /\ selPc = "notstarted"

\* fzfPreview was not called.
PreviewUncalled == pvPc = "idle" /\ pvOut = <<>> /\ pvRan = <<>>

\* C17: the first argument alone decides the mode. Without --preview in the
\* first place main calls run, with an empty query when there is no argument
\* and with the first argument otherwise, and never fzfPreview; with
\* --preview and a record it calls fzfPreview and starts nothing of the
\* search pipeline; with --preview alone it returns. When the process has
\* exited, it has exited with a non-zero status exactly when the mode chosen
\* returned an error.
C17_ModeSelection ==
    /\ mnPc = "main" => SearchUnstarted /\ PreviewUncalled
    /\ PreviewMode => SearchUnstarted /\ mnPc # "run"
    /\ ~PreviewMode => PreviewUncalled /\ mnPc \in {"main", "run"}
    /\ mnPc = "run" => query = (IF args = <<>> THEN <<>> ELSE args[1])
    /\ mnPc = "fzfPreview" => Len(args) > 1
    /\ args = <<PreviewFlag>> /\ mnPc # "main" =>
          PreviewUncalled /\ procPc = "exit0"
    /\ procPc \in {"exit0", "exit1"} =>
          ((procPc = "exit1") <=> (runErr # "none" \/ pvErr # <<>>))

\* The program was started with the arguments q and --preview: run was called
\* with the query q and has returned nil, fzfPreview was not called, and the
\* process has exited with status 0.
C17_Witness ==
    /\ args = <<QueryArg, PreviewFlag>>
    /\ query = QueryArg
    /\ ctlPc = "Done"
    /\ PreviewUncalled
    /\ procPc = "exit0"

\* ------------------------------------------- claims on the stream ends

\* The controller has closed atuin.stdout: by atuin.cmd.Wait() (line 61) or by
\* the deferred Close (line 50).
StreamClosed == bkPc # "notstarted" /\ ~outOpen

\* C18 (as claimed): the controller closes the backend's output stream, by
\* Wait or by the deferred Close, only when the producer has read it to its
\* end, and the producer never fails on a read error.
C18_NoReadRace ==
    /\ StreamClosed => prPc \notin {"scan", "write"}
    /\ prErr # "read"

\* C19 (as claimed): when run has returned after a successful launch of the
\* backend, the backend's output stream and both ends of the adapter pipe
\* are closed.
C19_AllClosed ==
    (ctlPc \in {"Done", "Failed"} /\ bkPc # "notstarted") =>
        /\ ~outOpen
        /\ ~wOpen
        /\ ~rOpen

====
